---- MODULE Spec2Model ----
(***************************************************************************)
(* Kid Shorts Studio: the brief form (client component Home) and the       *)
(* generation endpoint (route handler POST), both in                       *)
(* src/ai-youtube-kids/src/app/page.tsx.                                   *)
(*                                                                         *)
(* Numbers.  creativity and temperature are kept in hundredths (0.6 is 60, *)
(* 0.95 is 95); runtime seconds are whole seconds.  A JavaScript value is  *)
(* a record [k, n, s]: k is its kind, n its numeric value, s its string.   *)
(* Text.  A completion text is a sequence of tokens: FENCE is ```, json is *)
(* the letters json, SP is white space, a is any other character, OPEN,    *)
(* MID, CLOSE, OPENS are the structural parts of a JSON object and a scene *)
(* token is one scene object of the storyline array.                       *)
(***************************************************************************)
EXTENDS Integers, Sequences, FiniteSets, TLC

VARIABLES
    apiKeySet,       \* process.env.OPENAI_API_KEY is set (truthy)
    inbox,           \* requests on their way to the endpoint
    srv,             \* the running POST invocation: its position and locals
    outbox,          \* responses on their way back to the browser
    formState,       \* useState(defaultForm)
    result,          \* useState<AgentResponse | null>(null)
    isLoading,       \* useState(false)
    errorMessage,    \* useState<string | null>(null)
    pendingFetches,  \* handleSubmit invocations suspended at await fetch
    pendingCopies,   \* handleCopy invocations suspended at await writeText
    timers,          \* pending setTimeout callbacks of handleCopy
    submits,         \* submit events so far
    fetches,         \* fetch("/api/generate") calls so far
    edits,           \* handleChange calls so far
    copies,          \* copy clicks so far
    crashed          \* a render threw: the component tree is unmounted

vars == <<apiKeySet, inbox, srv, outbox, formState, result, isLoading,
          errorMessage, pendingFetches, pendingCopies, timers, submits,
          fetches, edits, copies, crashed>>

clientVars == <<formState, result, isLoading, errorMessage, pendingFetches,
                pendingCopies, timers, submits, fetches, edits, copies,
                crashed>>

----------------------------------------------------------------------------
(* Bounds of the model *)

MaxSubmits == 2
MaxEdits == 3
MaxCopies == 1
MaxScenes == 4
MaxStr == 2

----------------------------------------------------------------------------
(* JavaScript values and the built-ins the code calls *)

Num(n) == [k |-> "num", n |-> n, s |-> ""]
Str(s) == [k |-> "str", n |-> 0, s |-> s]
NaN == [k |-> "nan", n |-> 0, s |-> ""]
PosInf == [k |-> "inf", n |-> 0, s |-> ""]
NegInf == [k |-> "ninf", n |-> 0, s |-> ""]
Undefined == [k |-> "undefined", n |-> 0, s |-> ""]
Null == [k |-> "null", n |-> 0, s |-> ""]

\* StringToNumber of the strings the model uses ("" is 0, "50" is 50, any
\* other text is NaN)
StringToNumber(s) ==
    CASE s = "" -> Num(0)
      [] s = "50" -> Num(50)
      [] OTHER -> NaN

\* ToNumber, applied by Math.min and Math.max to their arguments
ToNumber(x) ==
    CASE x.k = "undefined" -> NaN
      [] x.k = "null" -> Num(0)
      [] x.k = "str" -> StringToNumber(x.s)
      [] OTHER -> x

MathMin(a, b) ==
    LET x == ToNumber(a)
        y == ToNumber(b)
    IN  CASE x.k = "nan" \/ y.k = "nan" -> NaN
          [] x.k = "ninf" \/ y.k = "ninf" -> NegInf
          [] x.k = "inf" -> y
          [] y.k = "inf" -> x
          [] OTHER -> IF x.n <= y.n THEN x ELSE y

MathMax(a, b) ==
    LET x == ToNumber(a)
        y == ToNumber(b)
    IN  CASE x.k = "nan" \/ y.k = "nan" -> NaN
          [] x.k = "inf" \/ y.k = "inf" -> PosInf
          [] x.k = "ninf" -> y
          [] y.k = "ninf" -> x
          [] OTHER -> IF x.n >= y.n THEN x ELSE y

\* Number.isFinite: true of numbers only, without coercion
NumberIsFinite(x) == x.k = "num"

\* ToBoolean, as used by the || operator
Truthy(x) ==
    CASE x.k = "str" -> x.s # ""
      [] x.k = "num" -> x.n # 0
      [] x.k \in {"inf", "ninf"} -> TRUE
      [] OTHER -> FALSE

OrElse(x, d) == IF Truthy(x) THEN x ELSE d

----------------------------------------------------------------------------
(* Program constants *)

RuntimeMin == 15
RuntimeMax == 90
RuntimeStep == 5
TempFloor == 20
TempCeil == 95
TempOffset == 20
TempFallback == 60
CreativityMax == 100
CreativityStep == 10
PreviewLen == 3
StatusOk == 200
StatusServerError == 500
StatusBadGateway == 502

MissingKeyMsg ==
    "Missing OPENAI_API_KEY. Add it to your environment before generating content."
ProviderFailedMsg == "The model could not generate a short. Please try again."
FormatFailedMsg ==
    "Generation succeeded but the response formatting failed. Try running again."
ClientFallbackMsg == "Something went wrong. Please try again."
CopiedMsg == "Copied to clipboard!"
\* the message for a thrown value that is not an Error
SnagFallbackMsg == "We hit a snag creating the short. Give it another go!"
\* the message of the TypeError a browser's fetch rejects with
NetworkErrorMsg == "Failed to fetch"
\* errorMessage === null
NoMessage == "null"

defaultForm ==
    [channelName |-> "",
     topic |-> "",
     targetAge |-> "Ages 5-8",
     learningOutcome |-> "",
     tone |-> "Playful & Silly",
     heroCharacter |-> "",
     runtimeSeconds |-> 45,
     callToAction |-> "Subscribe for more adventures!",
     cadence |-> "3 videos / week",
     extraNotes |-> "",
     creativity |-> 60]

----------------------------------------------------------------------------
(* Completion text, JSON.parse and sanitizeJSON *)

Tok(t) == [t |-> t, n |-> 0]
Scene(i) == [t |-> "scene", n |-> i]

FENCE == Tok("FENCE")
JSONWORD == Tok("json")
SP == Tok("SP")

\* what may stand inside a JSON string literal
StrChars == {FENCE, JSONWORD, SP, Tok("a"), Tok("null")}

\* JSON values: null, or an object with (or without) a storyline array and
\* a script string
NullValue == [kind |-> "null", hasStoryline |-> FALSE, storyline |-> <<>>,
              script |-> <<>>]
ObjectValue(story, script) ==
    [kind |-> "object", hasStoryline |-> TRUE, storyline |-> story,
     script |-> script]
BareObjectValue(script) ==
    [kind |-> "object", hasStoryline |-> FALSE, storyline |-> <<>>,
     script |-> script]

RECURSIVE TrimStart(_)
TrimStart(t) ==
    IF t # <<>> /\ Head(t) = SP THEN TrimStart(Tail(t)) ELSE t

RECURSIVE TrimEnd(_)
TrimEnd(t) ==
    IF t # <<>> /\ t[Len(t)] = SP THEN TrimEnd(SubSeq(t, 1, Len(t) - 1)) ELSE t

\* String.prototype.trim
Trim(t) == TrimEnd(TrimStart(t))

\* raw.replace(/```json|```/g, ""): every fence goes, with the word json
\* when it follows the fence directly, wherever in the text it stands
RECURSIVE ReplaceFences(_)
ReplaceFences(t) ==
    IF t = <<>> THEN <<>>
    ELSE IF Head(t) = FENCE
         THEN IF Len(t) >= 2 /\ t[2] = JSONWORD
              THEN ReplaceFences(SubSeq(t, 3, Len(t)))
              ELSE ReplaceFences(Tail(t))
         ELSE <<Head(t)>> \o ReplaceFences(Tail(t))

\* JSON.parse: [ok |-> FALSE] when it throws SyntaxError.  White space
\* around the value is skipped.
JSONParse(t) ==
    LET u == Trim(t)
        n == Len(u)
        mids == {m \in 2..(n - 1) : u[m] = Tok("MID")}
    IN  IF u = <<Tok("null")>>
        THEN [ok |-> TRUE, value |-> NullValue]
        ELSE IF n >= 3 /\ u[1] = Tok("OPEN") /\ u[n] = Tok("CLOSE")
                /\ \E m \in mids :
                      /\ \A i \in 2..(m - 1) : u[i].t = "scene"
                      /\ \A i \in (m + 1)..(n - 1) : u[i] \in StrChars
        THEN LET m == CHOOSE m \in mids :
                        /\ \A i \in 2..(m - 1) : u[i].t = "scene"
                        /\ \A i \in (m + 1)..(n - 1) : u[i] \in StrChars
             IN  [ok |-> TRUE,
                  value |-> ObjectValue(SubSeq(u, 2, m - 1),
                                        SubSeq(u, m + 1, n - 1))]
        ELSE IF n >= 2 /\ u[1] = Tok("OPENS") /\ u[n] = Tok("CLOSE")
                /\ \A i \in 2..(n - 1) : u[i] \in StrChars
        THEN [ok |-> TRUE, value |-> BareObjectValue(SubSeq(u, 2, n - 1))]
        ELSE [ok |-> FALSE, value |-> NullValue]

\* sanitizeJSON that gives up after the direct parse
sanitizeJSON_NoRetry(raw) ==
    LET direct == JSONParse(raw)
    IN  [threw |-> ~direct.ok, value |-> direct.value, attempts |-> 1]

\* sanitizeJSON: threw is TRUE when the second JSON.parse throws; attempts
\* counts the JSON.parse calls made
sanitizeJSON(raw) ==
    LET direct == JSONParse(raw)
        cleaned == Trim(ReplaceFences(raw))
        retry == JSONParse(cleaned)
    IN  IF direct.ok
        THEN [threw |-> FALSE, value |-> direct.value, attempts |-> 1]
        ELSE [threw |-> ~retry.ok, value |-> retry.value, attempts |-> 2]

\* the canned completion used when the provider's reply carries no content:
\* an object with an empty storyline and an empty script
CannedContent == <<Tok("OPEN"), Tok("MID"), Tok("CLOSE")>>

----------------------------------------------------------------------------
(* The generation endpoint *)

PayloadFields ==
    {"channelName", "topic", "targetAge", "learningOutcome", "tone",
     "heroCharacter", "runtimeSeconds", "callToAction", "cadence",
     "extraNotes", "creativity"}

NoFields == [f \in PayloadFields |-> Undefined]

\* a request body: text that is not JSON ("invalid"), the JSON text null, or
\* a JSON object with the fields given
InvalidBody == [kind |-> "invalid", fields |-> NoFields]
NullBody == [kind |-> "null", fields |-> NoFields]
ObjectBody(fields) == [kind |-> "object", fields |-> fields]
NoBody == [kind |-> "none", fields |-> NoFields]

\* buildUserPrompt: the value interpolated on each line of the prompt
buildUserPrompt(payload) ==
    LET runtimeFocus ==
            MathMax(Num(RuntimeMin), MathMin(Num(RuntimeMax), payload.runtimeSeconds))
    IN  [channelName |-> OrElse(payload.channelName, Str("Not provided")),
         topic |-> payload.topic,
         targetAge |-> payload.targetAge,
         learningOutcome |->
             OrElse(payload.learningOutcome,
                    Str("Create an age-appropriate takeaway.")),
         tone |-> payload.tone,
         heroCharacter |->
             OrElse(payload.heroCharacter,
                    Str("Create an original, friendly character.")),
         runtime |-> runtimeFocus,
         cadence |-> payload.cadence,
         callToAction |-> payload.callToAction,
         extraNotes |->
             OrElse(payload.extraNotes,
                    Str("Stay joyful, ethical, and child-safe."))]

NoPrompt ==
    [channelName |-> Undefined, topic |-> Undefined, targetAge |-> Undefined,
     learningOutcome |-> Undefined, tone |-> Undefined,
     heroCharacter |-> Undefined, runtime |-> Undefined,
     cadence |-> Undefined, callToAction |-> Undefined,
     extraNotes |-> Undefined]

\* Temperature with the offset added to the fallback as well
Temperature_OffsetOnFallback(payload) ==
    MathMin(Num(TempCeil),
            MathMax(Num(TempFloor),
                    Num((IF NumberIsFinite(payload.creativity)
                         THEN payload.creativity.n
                         ELSE TempFallback) + TempOffset)))

\* Temperature without the upper clamp
Temperature_NoCeiling(payload) ==
    MathMax(Num(TempFloor),
            IF NumberIsFinite(payload.creativity)
            THEN Num(payload.creativity.n + TempOffset)
            ELSE Num(TempFallback))

\* the temperature of the provider call
Temperature(payload) ==
    MathMin(Num(TempCeil),
            MathMax(Num(TempFloor),
                    IF NumberIsFinite(payload.creativity)
                    THEN Num(payload.creativity.n + TempOffset)
                    ELSE Num(TempFallback)))

\* responses.  kind "json" is a NextResponse.json body; kind "unhandled" is
\* what the framework answers when the handler's promise rejects: status 500
\* and a body that is not JSON.
NoResponse == [status |-> 0, kind |-> "none", error |-> "", value |-> NullValue]
ErrorResponse(status, msg) ==
    [status |-> status, kind |-> "json", error |-> msg, value |-> NullValue]
PlanResponse(json) ==
    [status |-> StatusOk, kind |-> "json", error |-> "", value |-> json]
UnhandledResponse ==
    [status |-> StatusServerError, kind |-> "unhandled", error |-> "",
     value |-> NullValue]

SrvIdle ==
    [pc |-> "idle", origin |-> "none", body |-> NoBody, bodyRead |-> FALSE,
     prompt |-> NoPrompt, temperature |-> Undefined, calls |-> 0,
     outcome |-> "none", attempts |-> 0, content |-> <<>>,
     resp |-> NoResponse]

\* PostEntry that reads the body before it checks the credential
PostEntry_BodyFirst(key, req) ==
    LET s == [SrvIdle EXCEPT !.origin = req.origin, !.body = req.body,
                             !.bodyRead = TRUE]
    IN  IF req.body.kind \in {"invalid", "null"}
        THEN [s EXCEPT !.pc = "done", !.resp = UnhandledResponse]
        ELSE IF ~key
        THEN [s EXCEPT !.pc = "done",
                       !.resp = ErrorResponse(StatusServerError, MissingKeyMsg)]
        ELSE [s EXCEPT !.pc = "awaitProvider",
                       !.prompt = buildUserPrompt(req.body.fields),
                       !.temperature = Temperature(req.body.fields),
                       !.calls = 1]

\* POST up to its await of the provider call: the credential check, then
\* request.json(), the prompt, the temperature and the outbound fetch
PostEntry(key, req) ==
    LET s == [SrvIdle EXCEPT !.origin = req.origin, !.body = req.body]
    IN  IF ~key
        THEN [s EXCEPT !.pc = "done",
                       !.resp = ErrorResponse(StatusServerError, MissingKeyMsg)]
        ELSE IF req.body.kind = "invalid"
        THEN \* request.json() rejects
             [s EXCEPT !.pc = "done", !.bodyRead = TRUE,
                       !.resp = UnhandledResponse]
        ELSE IF req.body.kind = "null"
        THEN \* destructuring null in buildUserPrompt throws TypeError
             [s EXCEPT !.pc = "done", !.bodyRead = TRUE,
                       !.resp = UnhandledResponse]
        ELSE [s EXCEPT !.pc = "awaitProvider", !.bodyRead = TRUE,
                       !.prompt = buildUserPrompt(req.body.fields),
                       !.temperature = Temperature(req.body.fields),
                       !.calls = 1]

\* what the provider call can come to: the fetch rejects ("throw"), a
\* non-success status whose body text can or cannot be read ("notOk"), a
\* success whose body is not JSON ("okUnreadable"), a success without
\* choices[0].message.content ("okNoContent"), a success with completion text
ProviderOutcome(kind, readable, content) ==
    [kind |-> kind, readable |-> readable, content |-> content]

\* PostFinish that calls the provider again when the text does not parse
PostFinish_CallAgain(s, o) ==
    LET content == IF o.kind = "okNoContent" THEN CannedContent ELSE o.content
        parsed == sanitizeJSON(content)
        d == [s EXCEPT !.pc = "done", !.outcome = o.kind]
    IN  IF o.kind \in {"throw", "okUnreadable"}
        THEN [d EXCEPT !.resp = UnhandledResponse]
        ELSE IF o.kind = "notOk"
        THEN IF o.readable
             THEN [d EXCEPT !.resp = ErrorResponse(StatusBadGateway,
                                                   ProviderFailedMsg)]
             ELSE [d EXCEPT !.resp = UnhandledResponse]
        ELSE IF parsed.threw
        THEN [d EXCEPT !.content = content,
                       !.attempts = parsed.attempts,
                       !.calls = s.calls + 1,
                       !.resp = ErrorResponse(StatusServerError,
                                              FormatFailedMsg)]
        ELSE [d EXCEPT !.content = content,
                       !.attempts = parsed.attempts,
                       !.resp = PlanResponse(parsed.value)]

\* POST from the provider's answer to its return
PostFinish(s, o) ==
    LET content == IF o.kind = "okNoContent" THEN CannedContent ELSE o.content
        parsed == sanitizeJSON(content)
        d == [s EXCEPT !.pc = "done", !.outcome = o.kind]
    IN  IF o.kind = "throw"
        THEN [d EXCEPT !.resp = UnhandledResponse]
        ELSE IF o.kind = "notOk"
        THEN IF o.readable
             THEN [d EXCEPT !.resp = ErrorResponse(StatusBadGateway,
                                                   ProviderFailedMsg)]
             ELSE \* response.text() rejects
                  [d EXCEPT !.resp = UnhandledResponse]
        ELSE IF o.kind = "okUnreadable"
        THEN \* response.json() rejects
             [d EXCEPT !.resp = UnhandledResponse]
        ELSE IF parsed.threw
        THEN [d EXCEPT !.content = content,
                       !.attempts = parsed.attempts,
                       !.resp = ErrorResponse(StatusServerError,
                                              FormatFailedMsg)]
        ELSE [d EXCEPT !.content = content,
                       !.attempts = parsed.attempts,
                       !.resp = PlanResponse(parsed.value)]

\* completion texts
RECURSIVE SeqsUpTo(_, _)
SeqsUpTo(S, n) ==
    IF n = 0 THEN {<<>>}
    ELSE LET shorter == SeqsUpTo(S, n - 1)
         IN  shorter \cup {Append(q, x) : q \in shorter, x \in S}

Ascending(n) == [i \in 1..n |-> Scene(i)]
Descending(n) == [i \in 1..n |-> Scene(n + 1 - i)]

ObjectText(story, script) ==
    <<Tok("OPEN")>> \o story \o <<Tok("MID")>> \o script \o <<Tok("CLOSE")>>

\* <<before, after>>: nothing, a bare fence pair, a json fence pair with and
\* without white space, prose before the fence, a fence never closed
Wrappers ==
    {<< <<>>, <<>> >>,
     << <<FENCE>>, <<FENCE>> >>,
     << <<FENCE, JSONWORD>>, <<FENCE>> >>,
     << <<FENCE, JSONWORD, SP>>, <<SP, FENCE>> >>,
     << <<SP, FENCE, JSONWORD, SP>>, <<SP, FENCE, SP>> >>,
     << <<Tok("a"), FENCE, JSONWORD, SP>>, <<SP, FENCE>> >>,
     << <<FENCE, JSONWORD, SP>>, <<>> >>}

Wrap(w, t) == w[1] \o t \o w[2]

Scripts == SeqsUpTo({Tok("a"), FENCE, JSONWORD}, MaxStr)

OddTexts ==
    {<<>>, <<Tok("a")>>, <<FENCE>>, <<Tok("null")>>,
     <<FENCE, Tok("null"), FENCE>>,
     <<Tok("OPENS"), Tok("a"), Tok("CLOSE")>>,
     <<Tok("OPEN"), Tok("MID"), Tok("a")>>}

\* the completion texts put to the endpoint alone
FenceTexts ==
    {Wrap(w, ObjectText(story, script)) :
        w \in Wrappers, story \in {<<>>, Ascending(1)}, script \in Scripts}
    \cup OddTexts

\* the completion texts answered to the browser's requests
PlanTexts ==
    {Wrap(w, ObjectText(story, <<Tok("a")>>)) :
        w \in {<< <<>>, <<>> >>, << <<FENCE, JSONWORD, SP>>, <<SP, FENCE>> >>},
        story \in {Ascending(n) : n \in 0..MaxScenes}
                  \cup {Descending(n) : n \in 0..MaxScenes}}
    \cup OddTexts

ProviderOutcomes(texts) ==
    {ProviderOutcome("throw", FALSE, <<>>),
     ProviderOutcome("notOk", TRUE, <<>>),
     ProviderOutcome("notOk", FALSE, <<>>),
     ProviderOutcome("okUnreadable", FALSE, <<>>),
     ProviderOutcome("okNoContent", TRUE, <<>>)}
    \cup {ProviderOutcome("okContent", TRUE, t) : t \in texts}

\* request bodies put to the endpoint alone
CreativityInputs ==
    {Undefined, Null, Str("0.5"), PosInf, NegInf,
     Num(-50), Num(-20), Num(-1), Num(0), Num(30), Num(60), Num(75), Num(80),
     Num(100), Num(101), Num(150)}

RuntimeInputs ==
    {Undefined, Null, Str("abc"), Str("50"), Str(""), PosInf, NegInf,
     Num(-5), Num(0), Num(14), Num(15), Num(45), Num(90), Num(91), Num(500)}

FieldsOf(text, runtime, creativity) ==
    [f \in PayloadFields |->
        CASE f = "runtimeSeconds" -> runtime
          [] f = "creativity" -> creativity
          [] OTHER -> text]

DirectBodies ==
    {InvalidBody, NullBody}
    \cup {ObjectBody(FieldsOf(Str("x"), r, c)) :
            r \in RuntimeInputs, c \in CreativityInputs}
    \cup {ObjectBody(FieldsOf(t, Num(45), Num(60))) : t \in {Str(""), Undefined}}

\* a caller other than the form posts a body of its own
ExternalRequest ==
    /\ inbox = <<>>
    /\ srv.pc = "idle"
    /\ \E b \in DirectBodies :
          inbox' = <<[origin |-> "direct", body |-> b]>>
    /\ UNCHANGED <<apiKeySet, srv, outbox, clientVars>>

\* the endpoint takes a request and runs to its first await of the provider
PostBegin ==
    /\ srv.pc = "idle"
    /\ inbox # <<>>
    /\ srv' = PostEntry(apiKeySet, Head(inbox))
    /\ inbox' = Tail(inbox)
    /\ UNCHANGED <<apiKeySet, outbox, clientVars>>

\* the provider call settles and the handler runs to its return
PostComplete(texts) ==
    /\ srv.pc = "awaitProvider"
    /\ \E o \in ProviderOutcomes(texts) : srv' = PostFinish(srv, o)
    /\ UNCHANGED <<apiKeySet, inbox, outbox, clientVars>>

\* the response leaves the endpoint and the invocation is over
PostReturn ==
    /\ srv.pc = "done"
    /\ outbox' = IF srv.origin = "client" THEN Append(outbox, srv.resp)
                 ELSE outbox
    /\ srv' = SrvIdle
    /\ UNCHANGED <<apiKeySet, inbox, clientVars>>

Init ==
    /\ apiKeySet \in BOOLEAN
    /\ inbox = <<>>
    /\ srv = SrvIdle
    /\ outbox = <<>>
    /\ formState = defaultForm
    /\ result = NullValue
    /\ isLoading = FALSE
    /\ errorMessage = NoMessage
    /\ pendingFetches = 0
    /\ pendingCopies = 0
    /\ timers = 0
    /\ submits = 0
    /\ fetches = 0
    /\ edits = 0
    /\ copies = 0
    /\ crashed = FALSE

NextEndpoint ==
    \/ ExternalRequest
    \/ PostBegin
    \/ PostComplete(FenceTexts)
    \/ PostReturn

SpecEndpoint == Init /\ [][NextEndpoint]_vars

----------------------------------------------------------------------------
(* The brief form *)

\* Array.prototype.slice(start, end) for 0 <= start <= end
Slice(a, start, end) ==
    SubSeq(a, start + 1, IF end < Len(a) THEN end ELSE Len(a))

\* formatSeconds: the number printed before the "s"; toFixed(0) of a whole
\* number prints the number itself
formatSeconds(seconds) ==
    LET safe == MathMax(Num(RuntimeMin), MathMin(Num(RuntimeMax), seconds))
    IN  [shown |-> safe, unit |-> "s"]

\* the runtime label of the form
RuntimeLabel == formatSeconds(Num(formState.runtimeSeconds))

\* scenePreview with the last scenes instead of the first
scenePreview_Last ==
    IF result.kind = "null" THEN <<>>
    ELSE SubSeq(result.storyline,
                IF Len(result.storyline) > PreviewLen
                THEN Len(result.storyline) - PreviewLen + 1 ELSE 1,
                Len(result.storyline))

\* scenePreview: result?.storyline.slice(0, 3) ?? []
scenePreview ==
    IF result.kind = "null" THEN <<>>
    ELSE Slice(result.storyline, 0, PreviewLen)

\* a submit button that stays enabled
SubmitDisabled_Never == FALSE

\* disabled={isLoading} of the submit button
SubmitDisabled == isLoading

\* disabled={isLoading} of the reset button
ResetDisabled == isLoading

NumericFields == {"runtimeSeconds", "creativity"}

\* JSON.stringify(formState) as request.json() reads it back
JSONStringify(form) ==
    ObjectBody([f \in PayloadFields |->
                   IF f \in NumericFields THEN Num(form[f]) ELSE Str(form[f])])

\* what the controls of the form can deliver to handleChange: the two range
\* inputs move in steps between their min and max, the selects offer their
\* options, the text inputs any text
RuntimeChoices ==
    {r \in {15, 30, 45, 90} :
        r >= RuntimeMin /\ r <= RuntimeMax /\ (r - RuntimeMin) % RuntimeStep = 0}
CreativityChoices ==
    {c \in {0, 60, 80, 100} : c <= CreativityMax /\ c % CreativityStep = 0}

EditChoices ==
    {<<"channelName", v>> : v \in {"", "WonderKids Explorers"}}
    \cup {<<"topic", v>> : v \in {"", "Why do chameleons change colors?"}}
    \cup {<<"targetAge", v>> : v \in {"Ages 3-5", "Ages 5-8"}}
    \cup {<<"learningOutcome", v>> : v \in {"", "Camouflage"}}
    \cup {<<"tone", v>> : v \in {"Playful & Silly", "Calm Storyteller"}}
    \cup {<<"heroCharacter", v>> : v \in {"", "Sunny"}}
    \cup {<<"runtimeSeconds", v>> : v \in RuntimeChoices}
    \cup {<<"callToAction", v>> : v \in {"", "Subscribe for more adventures!"}}
    \cup {<<"cadence", v>> : v \in {"Daily", "3 videos / week"}}
    \cup {<<"extraNotes", v>> : v \in {"", "Sing-along"}}
    \cup {<<"creativity", v>> : v \in CreativityChoices}

handleChange ==
    /\ ~crashed
    /\ edits < MaxEdits
    /\ \E e \in EditChoices :
          /\ formState[e[1]] # e[2]
          /\ formState' = [formState EXCEPT ![e[1]] = e[2]]
    /\ edits' = edits + 1
    /\ UNCHANGED <<apiKeySet, inbox, srv, outbox, result, isLoading,
                   errorMessage, pendingFetches, pendingCopies, timers,
                   submits, fetches, copies, crashed>>

\* handleSubmit that leaves the previous plan on the page
handleSubmit_KeepsResult ==
    /\ ~crashed
    /\ ~SubmitDisabled
    /\ formState.channelName # ""
    /\ formState.topic # ""
    /\ submits < MaxSubmits
    /\ isLoading' = TRUE
    /\ errorMessage' = NoMessage
    /\ inbox' = Append(inbox, [origin |-> "client",
                               body |-> JSONStringify(formState)])
    /\ pendingFetches' = pendingFetches + 1
    /\ submits' = submits + 1
    /\ fetches' = fetches + 1
    /\ UNCHANGED <<apiKeySet, srv, outbox, formState, result, pendingCopies,
                   timers, edits, copies, crashed>>

\* handleSubmit up to its await of fetch.  The browser raises the submit
\* event only through an enabled submit button and with the two required
\* inputs filled.
handleSubmit ==
    /\ ~crashed
    /\ ~SubmitDisabled
    /\ formState.channelName # ""
    /\ formState.topic # ""
    /\ submits < MaxSubmits
    /\ isLoading' = TRUE
    /\ errorMessage' = NoMessage
    /\ result' = NullValue
    /\ inbox' = Append(inbox, [origin |-> "client",
                               body |-> JSONStringify(formState)])
    /\ pendingFetches' = pendingFetches + 1
    /\ submits' = submits + 1
    /\ fetches' = fetches + 1
    /\ UNCHANGED <<apiKeySet, srv, outbox, formState, pendingCopies, timers,
                   edits, copies, crashed>>

\* the message handleSubmit throws for a response that is not ok
ErrorOf(r) ==
    IF r.kind = "json" /\ r.error # "" THEN r.error ELSE ClientFallbackMsg

\* handleSubmit from the arrival of the response to its end; the render that
\* follows throws when the stored plan has no storyline
FetchResolve ==
    /\ ~crashed
    /\ pendingFetches > 0
    /\ outbox # <<>>
    /\ LET r == Head(outbox)
           ok == r.status >= 200 /\ r.status <= 299
       IN  /\ result' = IF ok THEN r.value ELSE result
           /\ errorMessage' = IF ok THEN errorMessage ELSE ErrorOf(r)
           /\ crashed' = (ok /\ r.value.kind = "object" /\ ~r.value.hasStoryline)
    /\ isLoading' = FALSE
    /\ outbox' = Tail(outbox)
    /\ pendingFetches' = pendingFetches - 1
    /\ UNCHANGED <<apiKeySet, inbox, srv, formState, pendingCopies, timers,
                   submits, fetches, edits, copies>>

\* the fetch rejects: the request is lost on its way, the connection drops
\* while the endpoint works (which then goes on, nothing cancels it), or the
\* response is lost on its way back
FetchReject ==
    /\ ~crashed
    /\ pendingFetches > 0
    /\ \/ /\ inbox # <<>>
          /\ inbox' = Tail(inbox)
          /\ UNCHANGED <<srv, outbox>>
       \/ /\ srv.origin = "client"
          /\ srv' = [srv EXCEPT !.origin = "gone"]
          /\ UNCHANGED <<inbox, outbox>>
       \/ /\ outbox # <<>>
          /\ outbox' = Tail(outbox)
          /\ UNCHANGED <<inbox, srv>>
    /\ errorMessage' = NetworkErrorMsg
    /\ isLoading' = FALSE
    /\ pendingFetches' = pendingFetches - 1
    /\ UNCHANGED <<apiKeySet, formState, result, pendingCopies, timers,
                   submits, fetches, edits, copies, crashed>>

\* handleReset that leaves the plan on the page
handleReset_KeepsResult ==
    /\ ~crashed
    /\ ~ResetDisabled
    /\ formState' = defaultForm
    /\ errorMessage' = NoMessage
    /\ UNCHANGED <<apiKeySet, inbox, srv, outbox, result, isLoading,
                   pendingFetches, pendingCopies, timers, submits, fetches,
                   edits, copies, crashed>>

handleReset ==
    /\ ~crashed
    /\ ~ResetDisabled
    /\ formState' = defaultForm
    /\ result' = NullValue
    /\ errorMessage' = NoMessage
    /\ UNCHANGED <<apiKeySet, inbox, srv, outbox, isLoading, pendingFetches,
                   pendingCopies, timers, submits, fetches, edits, copies,
                   crashed>>

\* handleCopy up to its await of writeText; the copy buttons exist while a
\* plan is shown; without a clipboard the handler returns at once
handleCopy ==
    /\ ~crashed
    /\ result.kind # "null"
    /\ copies < MaxCopies
    /\ copies' = copies + 1
    /\ \E clipboard \in BOOLEAN :
          pendingCopies' = IF clipboard THEN pendingCopies + 1
                           ELSE pendingCopies
    /\ UNCHANGED <<apiKeySet, inbox, srv, outbox, formState, result,
                   isLoading, errorMessage, pendingFetches, timers, submits,
                   fetches, edits, crashed>>

\* writeText resolves
CopyResolve ==
    /\ ~crashed
    /\ pendingCopies > 0
    /\ pendingCopies' = pendingCopies - 1
    /\ errorMessage' = CopiedMsg
    /\ timers' = timers + 1
    /\ UNCHANGED <<apiKeySet, inbox, srv, outbox, formState, result,
                   isLoading, pendingFetches, submits, fetches, edits,
                   copies, crashed>>

\* writeText rejects
CopyReject ==
    /\ ~crashed
    /\ pendingCopies > 0
    /\ pendingCopies' = pendingCopies - 1
    /\ UNCHANGED <<apiKeySet, inbox, srv, outbox, formState, result,
                   isLoading, errorMessage, pendingFetches, timers, submits,
                   fetches, edits, copies, crashed>>

\* the callback of setTimeout(..., 2500)
TimerFire ==
    /\ ~crashed
    /\ timers > 0
    /\ timers' = timers - 1
    /\ errorMessage' = NoMessage
    /\ UNCHANGED <<apiKeySet, inbox, srv, outbox, formState, result,
                   isLoading, pendingFetches, pendingCopies, submits,
                   fetches, edits, copies, crashed>>

Next ==
    \/ handleChange
    \/ handleSubmit
    \/ FetchResolve
    \/ FetchReject
    \/ handleReset
    \/ handleCopy
    \/ CopyResolve
    \/ CopyReject
    \/ TimerFire
    \/ PostBegin
    \/ PostComplete(PlanTexts)
    \/ PostReturn

Spec == Init /\ [][Next]_vars

----------------------------------------------------------------------------
(* Properties of the endpoint, checked under SpecEndpoint *)

\* the creativity of the request the endpoint is handling
Creativity == srv.body.fields.creativity
RuntimeSeconds == srv.body.fields.runtimeSeconds
CalledProvider == srv.pc \in {"awaitProvider", "done"} /\ srv.calls > 0

\* C1: without the credential every POST, whatever its body, ends with
\* status 500 and the missing-credential message, without reading the body
\* and without a provider call.
C1_MissingKeyFailsFast ==
    (~apiKeySet /\ srv.pc # "idle") =>
        /\ srv.pc = "done"
        /\ srv.resp.status = 500
        /\ srv.resp.kind = "json"
        /\ srv.resp.error = MissingKeyMsg
        /\ srv.calls = 0
        /\ ~srv.bodyRead

C1_Witness ==
    /\ ~apiKeySet
    /\ srv.pc = "done"
    /\ srv.body.kind = "invalid"
    /\ srv.resp.status = 500

C3_TemperatureInRange ==
    (CalledProvider /\ Creativity.k = "num"
     /\ Creativity.n >= 0 /\ Creativity.n <= 100) =>
        /\ srv.temperature.k = "num"
        /\ srv.temperature.n >= 20
        /\ srv.temperature.n <= 95
        /\ Creativity.n <= 75 => srv.temperature.n = Creativity.n + 20
        /\ Creativity.n >= 75 => srv.temperature.n = 95
        /\ Creativity.n = 0 => srv.temperature.n = 20
        /\ Creativity.n = 60 => srv.temperature.n = 80

C3_Witness ==
    /\ CalledProvider
    /\ Creativity = Num(80)
    /\ srv.temperature = Num(95)

\* C6: a successful provider answer whose completion text is not JSON, as it
\* stands and with the fences removed, ends with status 500 and the
\* formatting-failed message after two parse attempts.
C6_FormatFailure ==
    (srv.pc = "done" /\ srv.outcome = "okContent"
     /\ ~JSONParse(srv.content).ok
     /\ ~JSONParse(Trim(ReplaceFences(srv.content))).ok) =>
        /\ srv.resp.status = 500
        /\ srv.resp.kind = "json"
        /\ srv.resp.error = FormatFailedMsg
        /\ srv.attempts = 2
        /\ srv.calls = 1

C6_Witness ==
    /\ srv.pc = "done"
    /\ srv.outcome = "okContent"
    /\ srv.content = <<Tok("a"), FENCE, JSONWORD, SP, Tok("OPEN"), Tok("MID"),
                       Tok("CLOSE"), SP, FENCE>>
    /\ srv.resp.error = FormatFailedMsg

\* C7 as stated: every failure of the endpoint ends with a JSON body that
\* carries an error text and with status 500 or 502; nothing escapes the
\* handler as an unhandled exception.
C7_EveryFailureHasErrorBody ==
    (srv.pc = "done" /\ srv.resp.status # 200) =>
        /\ srv.resp.kind = "json"
        /\ srv.resp.error # ""
        /\ srv.resp.status \in {500, 502}

\* C4 as stated: the runtime interpolated into the prompt and the runtime
\* shown in the form lie in [15, 90] for every input: an input below 15
\* becomes 15, one above 90 becomes 90, one in the range stays.
C4_RuntimeClamped ==
    /\ CalledProvider =>
          /\ srv.prompt.runtime.k = "num"
          /\ srv.prompt.runtime.n >= 15
          /\ srv.prompt.runtime.n <= 90
          /\ (RuntimeSeconds.k = "num" /\ RuntimeSeconds.n >= 15
              /\ RuntimeSeconds.n <= 90) => srv.prompt.runtime = RuntimeSeconds
    /\ RuntimeLabel.shown.k = "num"
    /\ RuntimeLabel.shown.n >= 15
    /\ RuntimeLabel.shown.n <= 90

\* the text between an opening fence (``` or ```json) and a closing fence
FencedPayload(t) ==
    LET u == Trim(t)
    IN  SubSeq(u, IF u[2] = JSONWORD THEN 3 ELSE 2, Len(u) - 1)

\* valid JSON wrapped in code-fence markers
IsFencedJSON(t) ==
    LET u == Trim(t)
    IN  /\ Len(u) >= 2
        /\ u[1] = FENCE
        /\ u[Len(u)] = FENCE
        /\ JSONParse(FencedPayload(t)).ok

\* C5 as stated: completion text that is valid JSON is returned parsed, with
\* one parse attempt; completion text that is valid JSON wrapped in fences
\* is answered with status 200 and the object the wrapped JSON denotes.
C5_FencedJSONRoundTrips ==
    (srv.pc = "done" /\ srv.outcome = "okContent") =>
        /\ JSONParse(srv.content).ok =>
              /\ srv.resp = PlanResponse(JSONParse(srv.content).value)
              /\ srv.attempts = 1
        /\ IsFencedJSON(srv.content) =>
              /\ srv.resp.status = 200
              /\ srv.resp.value = JSONParse(FencedPayload(srv.content)).value

----------------------------------------------------------------------------
(* Properties of the form with the endpoint, checked under Spec *)

\* C8 as stated: every request of the form that the endpoint has handled
\* made exactly one provider call.
C8_ExactlyOneCall ==
    (srv.pc = "done" /\ srv.origin \in {"client", "gone"}) => srv.calls = 1

\* C8 as amended: every submit sends one request and the form never sends
\* one on its own; the endpoint makes at most one provider call for a
\* request, on every path: one when the credential is set, none when it is
\* missing.
C8_AtMostOneCall ==
    /\ fetches = submits
    /\ srv.calls <= 1
    /\ srv.pc = "awaitProvider" => srv.calls = 1
    /\ (srv.pc = "done" /\ srv.origin \in {"client", "gone"}) =>
          (srv.calls = 1 <=> apiKeySet)

C8_Witness ==
    /\ submits = 2
    /\ fetches = 2
    /\ srv.pc = "done"
    /\ srv.origin = "client"
    /\ srv.resp.error = FormatFailedMsg
    /\ srv.attempts = 2
    /\ srv.calls = 1

\* C9: at most one generation request is in flight; while it is, the form is
\* busy and the submit and reset buttons are disabled; once it has settled
\* the form is no longer busy.
C9_SingleFlight ==
    /\ pendingFetches <= 1
    /\ isLoading <=> pendingFetches = 1
    /\ pendingFetches = 1 => (SubmitDisabled /\ ResetDisabled)
    /\ pendingFetches = 0 => ~SubmitDisabled

C9_Witness ==
    /\ submits = 2
    /\ pendingFetches = 1
    /\ isLoading

\* C10: with a plan stored the preview is the first min(3, n) scenes of its
\* storyline of n scenes, in their order; with no plan stored it is empty.
C10_PreviewIsFirstThree ==
    ~crashed =>
        IF result.kind = "null"
        THEN scenePreview = <<>>
        ELSE LET n == Len(result.storyline)
             IN  /\ Len(scenePreview) = IF n < 3 THEN n ELSE 3
                 /\ \A i \in 1..Len(scenePreview) :
                       scenePreview[i] = result.storyline[i]

C10_Witness ==
    /\ ~crashed
    /\ result.kind = "object"
    /\ result.storyline = <<Scene(4), Scene(3), Scene(2), Scene(1)>>
    /\ scenePreview = <<Scene(4), Scene(3), Scene(2)>>

C10_WitnessEmpty ==
    /\ ~crashed
    /\ result.kind = "object"
    /\ result.storyline = <<>>
    /\ scenePreview = <<>>

\* the brief after a reset, field by field
BriefAfterReset(cadence) ==
    /\ formState'.channelName = ""
    /\ formState'.topic = ""
    /\ formState'.targetAge = "Ages 5-8"
    /\ formState'.learningOutcome = ""
    /\ formState'.tone = "Playful & Silly"
    /\ formState'.heroCharacter = ""
    /\ formState'.runtimeSeconds = 45
    /\ formState'.callToAction = "Subscribe for more adventures!"
    /\ formState'.cadence = cadence
    /\ formState'.extraNotes = ""
    /\ formState'.creativity = 60

\* C11 as stated: a reset with a plan on the page leaves no plan, no message
\* and the documented defaults in every field of the brief, the cadence
\* "3 videos/week" among them.
C11_ResetToDocumentedDefaults ==
    [][(handleReset /\ result.kind = "object") =>
          /\ result'.kind = "null"
          /\ errorMessage' = NoMessage
          /\ BriefAfterReset("3 videos/week")]_vars

\* C11 as amended: the same, with the cadence "3 videos / week" (the value
\* of the select's option).
C11_ResetToDefaults ==
    [][(handleReset /\ result.kind = "object") =>
          /\ result'.kind = "null"
          /\ errorMessage' = NoMessage
          /\ BriefAfterReset("3 videos / week")]_vars

\* after a reset that followed a generation: two edits filled the two
\* required inputs, a submit was made, a copy button was clicked (there was
\* a plan), and the brief is the default one again
C11_Witness ==
    /\ ~crashed
    /\ edits = 2
    /\ submits >= 1
    /\ copies >= 1
    /\ ~isLoading
    /\ formState = defaultForm
    /\ result.kind = "null"
    /\ errorMessage = NoMessage

\* the response a settling request has received
Arrived == Head(outbox)
ArrivedOk == Arrived.status >= 200 /\ Arrived.status <= 299
ArrivedCarriesError == Arrived.kind = "json" /\ Arrived.error # ""

\* what every failed submission leaves: no plan, not busy, a message shown
FailureLeaves ==
    /\ result'.kind = "null"
    /\ ~isLoading'
    /\ errorMessage' # NoMessage
    /\ errorMessage' # ""

\* C12 as stated: a submission that fails, by a non-success status or by a
\* network error, leaves no plan, the busy state off and a message that is
\* the server's error text when the response carries one and a generic
\* fallback string otherwise; one that succeeds leaves the returned plan
\* stored and the message as it was.
C12_ServerTextOrFallback ==
    [][/\ (FetchResolve /\ ArrivedOk) =>
             /\ result' = Arrived.value
             /\ errorMessage' = errorMessage
       /\ (FetchResolve /\ ~ArrivedOk) =>
             /\ FailureLeaves
             /\ errorMessage' = IF ArrivedCarriesError THEN Arrived.error
                                ELSE ClientFallbackMsg
       /\ FetchReject =>
             /\ FailureLeaves
             /\ errorMessage' \in {ClientFallbackMsg, SnagFallbackMsg}]_vars

\* C12 as amended: the same, but after a network error the message is the
\* message of the exception that fetch threw, not a fallback string.
C12_ServerTextFallbackOrException ==
    [][/\ (FetchResolve /\ ArrivedOk) =>
             /\ result' = Arrived.value
             /\ errorMessage' = errorMessage
       /\ (FetchResolve /\ ~ArrivedOk) =>
             /\ FailureLeaves
             /\ errorMessage' = IF ArrivedCarriesError THEN Arrived.error
                                ELSE ClientFallbackMsg
       /\ FetchReject =>
             /\ FailureLeaves
             /\ errorMessage' = NetworkErrorMsg]_vars

\* a second submission has failed with a response that carries no error
\* text, after a first one had put a plan on the page
C12_Witness ==
    /\ ~crashed
    /\ submits = 2
    /\ copies >= 1
    /\ pendingFetches = 0
    /\ ~isLoading
    /\ result.kind = "null"
    /\ errorMessage = ClientFallbackMsg

\* the messages a failed generation shows
GenerationErrors ==
    {MissingKeyMsg, ProviderFailedMsg, FormatFailedMsg, ClientFallbackMsg,
     NetworkErrorMsg}

\* C13 as stated: the timer of a copy removes nothing but the copy
\* confirmation, and the message of a failed generation stays until the next
\* submit or reset.
C13_ErrorStaysUntilSubmitOrReset ==
    [][/\ TimerFire => errorMessage \in {CopiedMsg, NoMessage}
       /\ (errorMessage \in GenerationErrors /\ errorMessage' # errorMessage)
             => (handleSubmit \/ handleReset)]_vars

====
